---- MODULE Spec2Model ----
(***************************************************************************)
(* Bitmask dynamic programming for the Hamiltonian path of a directed      *)
(* graph: find_hamiltonian_path(adj) and its wrapper run(input_data) of    *)
(* src/main.py, as a state machine whose steps are the iterations of the   *)
(* loops of the function.                                                  *)
(***************************************************************************)
EXTENDS Integers, Sequences, FiniteSets, TLC

VARIABLES adj, n, full_mask, dp, parent, mask, u, v, path, cur_mask, cur_v,
          pc, result, response

vars == <<adj, n, full_mask, dp, parent, mask, u, v, path, cur_mask, cur_v,
          pc, result, response>>

\* Largest number of vertices of an input graph.
MaxN == 3
\* Largest number of nonzero entries of an input adjacency matrix.
MaxEdges == 4

(***************************************************************************)
(* Integer and list primitives of the language, computed as it does.       *)
(***************************************************************************)

\* 1 << k
Shl1(k) == 2 ^ k

\* (m & (1 << k)) != 0
BitSet(m, k) == (m \div Shl1(k)) % 2 = 1

\* m | (1 << k)
BitOr(m, k) == IF BitSet(m, k) THEN m ELSE m + Shl1(k)

\* m ^ (1 << k)
BitXor(m, k) == IF BitSet(m, k) THEN m - Shl1(k) ELSE m + Shl1(k)

\* len(a) of a list indexed 0..len-1
PyLen(a) == Cardinality(DOMAIN a)

\* a truthy matrix entry
Truthy(x) == x # 0

\* int(b) of a bool
IntOf(b) == IF b THEN 1 ELSE 0

\* list.reverse()
Reverse(s) == [i \in 1..Len(s) |-> s[Len(s) + 1 - i]]

(***************************************************************************)
(* Inputs: square 0/1 matrices on 0..MaxN vertices, self-loops allowed.    *)
(***************************************************************************)

EdgeCount(a) ==
    Cardinality({e \in (DOMAIN a) \X (DOMAIN a) : Truthy(a[e[1]][e[2]])})

Matrices(k) ==
    {a \in [0..k-1 -> [0..k-1 -> {0, 1}]] : EdgeCount(a) <= MaxEdges}

Inputs == UNION {Matrices(k) : k \in 0..MaxN}

(***************************************************************************)
(* The pieces of find_hamiltonian_path.                                    *)
(***************************************************************************)

\* line 29 with the index v in place of 1 << v
BaseMaskIsVertex(w) == w

\* line 29: the row of the one-vertex path at w
BaseMask(w) == Shl1(w)

\* line 38 without the test of the edge
CanExtendAnyVertex(m, a, b) == ~BitSet(m, b)

\* line 38 without the test of the mask
CanExtendAnyEdge(m, a, b) == Truthy(adj[a][b])

\* line 38: v is not in mask and there is an edge u -> v
CanExtend(m, a, b) == ~BitSet(m, b) /\ Truthy(adj[a][b])

\* line 39 without the new bit
NextMaskSame(m, b) == m

\* line 39
NextMaskOf(m, b) == BitOr(m, b)

\* line 41 dropped: every predecessor overwrites
AlwaysWrite(nm, b) == TRUE

\* line 41: only update if not already reached
NotYetReached(nm, b) == ~dp[nm][b]

\* line 47 taking the last end vertex instead of the first
ScanTakeLast(w) == dp[full_mask][w] /\ ~\E x \in w+1..n-1 : dp[full_mask][x]

\* line 47: the end vertex is taken as soon as one is found
ScanTake(w) == dp[full_mask][w]

\* line 58 leaving the mask as it is
RemoveNothing(m, b) == m

\* line 58: remove the current vertex from the mask
RemoveCurrent(m, b) == BitXor(m, b)

Init ==
    /\ adj \in Inputs
    /\ n = 0
    /\ full_mask = 0
    /\ dp = <<>>
    /\ parent = <<>>
    /\ mask = 0
    /\ u = 0
    /\ v = 0
    /\ path = <<>>
    /\ cur_mask = 0
    /\ cur_v = 0
    /\ pc = "alloc"
    /\ result = <<FALSE, <<>>>>
    /\ response = <<>>

\* lines 19-25: n, full_mask and the two tables
Alloc ==
    /\ pc = "alloc"
    /\ n' = PyLen(adj)
    /\ full_mask' = Shl1(PyLen(adj)) - 1
    /\ dp' = [m \in 0..Shl1(PyLen(adj)) - 1 |-> [w \in 0..PyLen(adj) - 1 |-> FALSE]]
    /\ parent' = [m \in 0..Shl1(PyLen(adj)) - 1 |-> [w \in 0..PyLen(adj) - 1 |-> -1]]
    /\ v' = 0
    /\ pc' = "base"
    /\ UNCHANGED <<adj, mask, u, path, cur_mask, cur_v, result, response>>

\* lines 28-30: one iteration of the base-case loop
BaseStep ==
    /\ pc = "base"
    /\ v < n
    /\ dp' = [dp EXCEPT ![BaseMask(v)][v] = TRUE]
    /\ parent' = [parent EXCEPT ![BaseMask(v)][v] = -1]
    /\ v' = v + 1
    /\ UNCHANGED <<adj, n, full_mask, mask, u, path, cur_mask, cur_v, pc,
                   result, response>>

\* line 28 exhausted, line 33 entered
BaseDone ==
    /\ pc = "base"
    /\ v = n
    /\ mask' = 0
    /\ u' = 0
    /\ pc' = "fwd"
    /\ UNCHANGED <<adj, n, full_mask, dp, parent, v, path, cur_mask, cur_v,
                   result, response>>

\* lines 34-35: one iteration of the loop over u
ForU ==
    /\ pc = "fwd"
    /\ mask < Shl1(n)
    /\ u < n
    /\ IF dp[mask][u]
         THEN /\ v' = 0
              /\ pc' = "ext"
              /\ u' = u
         ELSE /\ u' = u + 1
              /\ UNCHANGED <<v, pc>>
    /\ UNCHANGED <<adj, n, full_mask, dp, parent, mask, path, cur_mask, cur_v,
                   result, response>>

\* line 34 exhausted: the next mask of line 33
NextMask ==
    /\ pc = "fwd"
    /\ mask < Shl1(n)
    /\ u = n
    /\ mask' = mask + 1
    /\ u' = 0
    /\ UNCHANGED <<adj, n, full_mask, dp, parent, v, path, cur_mask, cur_v, pc,
                   result, response>>

\* lines 37-43: one iteration of the loop over v
ExtStep ==
    /\ pc = "ext"
    /\ v < n
    /\ IF CanExtend(mask, u, v) /\ NotYetReached(NextMaskOf(mask, v), v)
         THEN /\ dp' = [dp EXCEPT ![NextMaskOf(mask, v)][v] = TRUE]
              /\ parent' = [parent EXCEPT ![NextMaskOf(mask, v)][v] = u]
         ELSE UNCHANGED <<dp, parent>>
    /\ v' = v + 1
    /\ UNCHANGED <<adj, n, full_mask, mask, u, path, cur_mask, cur_v, pc,
                   result, response>>

\* line 37 exhausted: the next u of line 34
ExtDone ==
    /\ pc = "ext"
    /\ v = n
    /\ u' = u + 1
    /\ pc' = "fwd"
    /\ UNCHANGED <<adj, n, full_mask, dp, parent, mask, v, path, cur_mask,
                   cur_v, result, response>>

\* line 33 exhausted, line 46 entered
FwdDone ==
    /\ pc = "fwd"
    /\ mask = Shl1(n)
    /\ v' = 0
    /\ pc' = "scan"
    /\ UNCHANGED <<adj, n, full_mask, dp, parent, mask, u, path, cur_mask,
                   cur_v, result, response>>

\* lines 46-51: one iteration of the scan for an end vertex
ScanStep ==
    /\ pc = "scan"
    /\ v < n
    /\ IF ScanTake(v)
         THEN /\ path' = <<>>
              /\ cur_mask' = full_mask
              /\ cur_v' = v
              /\ pc' = "recon"
              /\ v' = v
         ELSE /\ v' = v + 1
              /\ UNCHANGED <<path, cur_mask, cur_v, pc>>
    /\ UNCHANGED <<adj, n, full_mask, dp, parent, mask, u, result, response>>

\* line 62: the scan found no end vertex
ScanFail ==
    /\ pc = "scan"
    /\ v = n
    /\ result' = <<FALSE, <<>>>>
    /\ pc' = "returned"
    /\ UNCHANGED <<adj, n, full_mask, dp, parent, mask, u, v, path, cur_mask,
                   cur_v, response>>

\* lines 52-59: one iteration of the walk over the parent pointers
ReconStep ==
    /\ pc = "recon"
    /\ IF cur_v = -1
         THEN /\ pc' = "reverse"
              /\ UNCHANGED <<path, cur_mask, cur_v>>
         ELSE /\ path' = Append(path, cur_v)
              /\ IF parent[cur_mask][cur_v] = -1
                   THEN /\ pc' = "reverse"
                        /\ UNCHANGED <<cur_mask, cur_v>>
                   ELSE /\ cur_mask' = RemoveCurrent(cur_mask, cur_v)
                        /\ cur_v' = parent[cur_mask][cur_v]
                        /\ pc' = "recon"
    /\ UNCHANGED <<adj, n, full_mask, dp, parent, mask, u, v, result, response>>

\* lines 60-61
ReturnPath ==
    /\ pc = "reverse"
    /\ path' = Reverse(path)
    /\ result' = <<TRUE, Reverse(path)>>
    /\ pc' = "returned"
    /\ UNCHANGED <<adj, n, full_mask, dp, parent, mask, u, v, cur_mask, cur_v,
                   response>>

\* lines 85-91 of run: the response built from the returned pair
RunReturn ==
    /\ pc = "returned"
    /\ response' = [optimal_solution |-> result[2], existence |-> IntOf(result[1])]
    /\ pc' = "done"
    /\ UNCHANGED <<adj, n, full_mask, dp, parent, mask, u, v, path, cur_mask,
                   cur_v, result>>

Next ==
    \/ Alloc
    \/ BaseStep
    \/ BaseDone
    \/ ForU
    \/ NextMask
    \/ ExtStep
    \/ ExtDone
    \/ FwdDone
    \/ ScanStep
    \/ ScanFail
    \/ ReconStep
    \/ ReturnPath
    \/ RunReturn

Spec == Init /\ [][Next]_vars

(***************************************************************************)
(* Reference notions, by exhaustive enumeration of vertex orders.          *)
(***************************************************************************)

\* The orders of the vertices of S: the injective sequences over S of full length.
Orders(S) ==
    {f \in [1..Cardinality(S) -> S] :
        \A i, j \in 1..Cardinality(S) : i # j => f[i] # f[j]}

\* Every sequence of distinct vertices, the empty one included.
AllOrders == UNION {Orders(S) : S \in SUBSET (0..MaxN-1)}

\* The vertices p visits.
Visited(p) == {p[i] : i \in 1..Len(p)}

\* Every consecutive pair of p is an edge of the graph.
IsWalk(p) == \A i \in 1..Len(p)-1 : Truthy(adj[p[i]][p[i+1]])

\* The vertices whose bits are set in m.
VerticesOf(m) == {w \in 0..n-1 : BitSet(m, w)}

\* The paths of the graph: the nonempty orders of some of its vertices
\* whose consecutive pairs are all edges.
Paths ==
    {p \in AllOrders : Len(p) >= 1 /\ Visited(p) \subseteq 0..n-1 /\ IsWalk(p)}

\* The pairs (S, e) such that some path visits exactly S and ends at e.
PathEnds == {<<Visited(p), p[Len(p)]>> : p \in Paths}

\* The verdict of the exhaustive search over the permutations of 0..n-1.
ExhaustiveVerdict == \E p \in AllOrders : Visited(p) = 0..n-1 /\ IsWalk(p)

\* The least element of a nonempty set of integers.
Least(S) == CHOOSE x \in S : \A y \in S : x <= y

\* m without the bit of w.
Without(m, w) == IF BitSet(m, w) THEN m - Shl1(w) ELSE m

\* The predecessors that could extend to (m, w).
Candidates(m, w) ==
    {x \in 0..n-1 : dp[Without(m, w)][x] /\ Truthy(adj[x][w])}

\* The number of bits set in m.
RECURSIVE PopCount(_)
PopCount(m) == IF m = 0 THEN 0 ELSE (m % 2) + PopCount(m \div 2)

\* The forward pass over the masks has finished.
AfterForward == pc \in {"scan", "recon", "reverse", "returned", "done"}

\* The cells (mask, vertex) of the two tables.
Cells == (0..Shl1(n)-1) \X (0..n-1)

(***************************************************************************)
(* The claims.                                                             *)
(***************************************************************************)

\* C1: whenever existence is reported true, the returned path has exactly n
\* elements, every vertex 0..n-1 appears in it exactly once, and every
\* consecutive pair of it is an edge of the adjacency matrix.
C1_Validity ==
    (pc \in {"returned", "done"} /\ result[1]) =>
        /\ Len(result[2]) = n
        /\ \A w \in 0..n-1 :
              Cardinality({i \in 1..Len(result[2]) : result[2][i] = w}) = 1
        /\ IsWalk(result[2])

C1_Witness ==
    /\ pc = "done"
    /\ result[1]
    /\ n >= 3
    /\ \E w \in 0..n-1 : Truthy(adj[w][w])
    /\ \E a, b \in 0..n-1 : a # b /\ ~Truthy(adj[a][b])

\* C2: the existence value returned equals the result of the exhaustive
\* search over all permutations of 0..n-1 for one whose consecutive pairs
\* are all edges.
C2_VerdictIsExhaustive ==
    pc = "done" => (result[1] <=> ExhaustiveVerdict)

\* C3: for n = 0 find_hamiltonian_path returns (true, []) and run returns
\* existence = 1 with optimal_solution = [].
C3_EmptyGraph ==
    (pc = "done" /\ PyLen(adj) = 0) =>
        /\ result = <<TRUE, <<>>>>
        /\ response = [optimal_solution |-> <<>>, existence |-> 1]

\* C4: for n = 1 the result is (true, [0]) with and without the self-loop,
\* and nothing is ever written to the tables by an extension.
C4_SingleVertex ==
    /\ (pc \in {"returned", "done"} /\ n = 1) => result = <<TRUE, <<0>>>>
    /\ (pc \notin {"alloc", "base"} /\ n = 1) =>
          /\ dp = [m \in 0..1 |-> [w \in 0..0 |-> m = 1]]
          /\ parent = [m \in 0..1 |-> [w \in 0..0 |-> -1]]
          /\ Len(path) <= 1

C4_Witness == pc = "done" /\ n = 1 /\ adj[0][0] = 1 /\ result[1]

\* C5: the response of run has existence in {0, 1}; its optimal_solution is
\* a complete path of exactly n vertices with existence = 1, or the empty
\* list with existence = 0; a false verdict always comes with an empty path.
C5_NoPartialResult ==
    /\ pc = "done" =>
          /\ response.existence \in {0, 1}
          /\ \/ /\ response.existence = 1
                /\ Len(response.optimal_solution) = n
                /\ {response.optimal_solution[i] : i \in 1..n} = 0..n-1
             \/ /\ response.existence = 0
                /\ response.optimal_solution = <<>>
    /\ (pc \in {"returned", "done"} /\ ~result[1]) => result[2] = <<>>

C5_Witness ==
    /\ pc = "done"
    /\ response.existence = 0
    /\ n >= 3
    /\ \E c \in Cells : dp[c[1]][c[2]] /\ parent[c[1]][c[2]] # -1

\* C6: when the forward pass has finished, dp[mask][u] is true exactly when
\* some path visits exactly the vertices of mask, each once, and ends at u.
C6_TableMeaning ==
    AfterForward =>
        LET ends == PathEnds
        IN  \A m \in 0..Shl1(n)-1, w \in 0..n-1 :
                dp[m][w] <=> <<VerticesOf(m), w>> \in ends

C6_Witness ==
    /\ pc = "scan"
    /\ n >= 3
    /\ \E w \in 0..n-1 : dp[full_mask][w]
    /\ \E w \in 0..n-1 : ~dp[full_mask][w]

\* C7: from the moment the outer loop processes a mask, no cell of a row
\* dp[m] or parent[m] with m <= mask is written: every write of the forward
\* pass goes to a row strictly greater than mask.
C7_WritesGoForward ==
    [][(pc \in {"fwd", "ext"} \/ AfterForward) =>
          \A m \in DOMAIN dp :
              m <= mask => dp'[m] = dp[m] /\ parent'[m] = parent[m]]_vars

C7_Witness ==
    /\ pc = "ext"
    /\ v > 0
    /\ mask >= 3
    /\ ~BitSet(mask, v - 1)
    /\ parent[BitOr(mask, v - 1)][v - 1] = u

\* C8: a true cell of dp is never reset, a cell of parent changes only when
\* its cell of dp turns true (so at most once), and a recorded parent of
\* (m, w) is the lowest-index predecessor that could extend to (m, w).
C8_FirstWriterWins ==
    /\ [][(pc # "alloc" /\ <<dp, parent>>' # <<dp, parent>>) =>
            \A m \in 0..Shl1(n)-1, w \in 0..n-1 :
                /\ dp[m][w] => dp'[m][w]
                /\ parent'[m][w] # parent[m][w] =>
                      ~dp[m][w] /\ dp'[m][w] /\ parent[m][w] = -1]_vars
    /\ [](pc # "alloc" =>
            \A m \in 0..Shl1(n)-1, w \in 0..n-1 :
                parent[m][w] # -1 =>
                    /\ BitSet(m, w)
                    /\ parent[m][w] = Least(Candidates(m, w)))
    /\ [](AfterForward =>
            \A m \in 0..Shl1(n)-1, w \in 0..n-1 :
                (BitSet(m, w) /\ Candidates(m, w) # {}) =>
                    parent[m][w] = Least(Candidates(m, w)))

C8_Witness ==
    /\ pc = "scan"
    /\ \E c \in Cells :
          /\ BitSet(c[1], c[2])
          /\ Cardinality(Candidates(c[1], c[2])) >= 2
          /\ parent[c[1]][c[2]] = Least(Candidates(c[1], c[2]))

\* C9: whenever existence is reported true for n >= 1, the last element of
\* the returned path is the lowest v with dp[full_mask][v] true, which is
\* the lowest vertex at which some Hamiltonian path of the graph ends.
C9_LowestEndVertex ==
    (pc \in {"returned", "done"} /\ result[1] /\ n >= 1) =>
        /\ Len(result[2]) >= 1
        /\ result[2][Len(result[2])] = Least({w \in 0..n-1 : dp[full_mask][w]})
        /\ result[2][Len(result[2])] =
              Least({w \in 0..n-1 : <<0..n-1, w>> \in PathEnds})

C9_Witness ==
    /\ pc = "done"
    /\ result[1]
    /\ Cardinality({w \in 0..n-1 : dp[full_mask][w]}) >= 2
    /\ ~dp[full_mask][0]

\* C10: the walk over the parent pointers ends after exactly n iterations;
\* at the start of every iteration cur_v is in cur_mask and
\* dp[cur_mask][cur_v] is true, the predecessor is -1 exactly when cur_mask
\* is the singleton of cur_v, and otherwise it lies in cur_mask without
\* cur_v, has an edge to cur_v and is the end of a path over that mask.
C10_WalkWellFounded ==
    /\ pc = "recon" =>
          /\ cur_v \in 0..n-1
          /\ cur_mask \in 1..full_mask
          /\ BitSet(cur_mask, cur_v)
          /\ dp[cur_mask][cur_v]
          /\ Len(path) + PopCount(cur_mask) = n
          /\ parent[cur_mask][cur_v] = -1 <=> cur_mask = Shl1(cur_v)
          /\ parent[cur_mask][cur_v] # -1 =>
                /\ parent[cur_mask][cur_v] \in 0..n-1
                /\ parent[cur_mask][cur_v] # cur_v
                /\ BitSet(cur_mask, parent[cur_mask][cur_v])
                /\ Truthy(adj[parent[cur_mask][cur_v]][cur_v])
                /\ dp[cur_mask - Shl1(cur_v)][parent[cur_mask][cur_v]]
    /\ pc = "reverse" => Len(path) = n /\ cur_mask = Shl1(cur_v)

C10_Witness ==
    /\ pc = "recon"
    /\ n >= 3
    /\ Len(path) = 2
    /\ parent[cur_mask][cur_v] = -1

====
